---- MODULE Spec2Model ----
(***************************************************************************)
(* The congestion service: the MQTT listener (mqtt_handler.py), the        *)
(* in-memory store and the HTTP handlers that change it (api_handler.py),  *)
(* and the record type with its validation (models.py).                    *)
(*                                                                         *)
(* Representation.  A JSON value is a record [type, n, s]; a key that is   *)
(* absent from an object is the value Missing.  A congestion level is an   *)
(* integer number of hundredths (0.4 is 40, 1.0 is LevelOne).  A point in  *)
(* time is an integer; datetime.now() is the variable now.                 *)
(***************************************************************************)
EXTENDS Integers, Sequences, FiniteSets, TLC

\* ------------------------------------------------------------------ bounds
MaxClock == 1      \* datetime.now() runs over 0..MaxClock
MaxGrid  == 2      \* longest grid_data list of a message under Spec
MaxBatch == 3      \* longest grid_data list of a message under Ingest
MaxCount == 60     \* largest count of a sub-entry under Ingest
MaxSubscribes == 8 \* subscribe calls followed under Lifecycle

\* --------------------------------------------------------------- constants
max_capacity == 50
LevelOne == 100    \* the level 1.0, in hundredths

CLIENT_TOPIC == "stadium/services/congestion"
SIMULATOR_TOPIC == "stadium/events/congestion"
\* The result codes a broker's CONNACK carries to on_connect: 0 accepts.
ResultCodes == {0, 1, 5}
CellIds == {"c1", "c2"}

\* -------------------------------------------------------------- JSON values
Missing == [type |-> "missing", n |-> 0, s |-> ""]
Null == [type |-> "null", n |-> 0, s |-> ""]
JInt(k) == [type |-> "number", n |-> k, s |-> ""]
JStr(t) == [type |-> "string", n |-> 0, s |-> t]

IsNumber(v) == v.type = "number"
IsString(v) == v.type = "string"

\* dict.get(key, default)
Get(v, default) == IF v = Missing THEN default ELSE v

Min(a, b) == IF a <= b THEN a ELSE b

\* ------------------------------------------------------ CellCongestionData
\* The arguments are what the constructor is given: Missing for a keyword
\* that is not passed.  FieldsValid is pydantic's validation of them.
CellIdValid(cell_id) == IsString(cell_id)

\* Mutants of LevelInRange: one bound of Field(ge=0, le=1) is left out.
LevelInRangeNoUpper(congestion_level) ==
    IsNumber(congestion_level) /\ congestion_level.n >= 0

LevelInRangeNoLower(congestion_level) ==
    IsNumber(congestion_level) /\ congestion_level.n <= LevelOne

LevelInRange(congestion_level) ==
    /\ IsNumber(congestion_level)
    /\ congestion_level.n >= 0
    /\ congestion_level.n <= LevelOne

OptionalIntValid(v) == v = Missing \/ v = Null \/ IsNumber(v)

FieldsValid(cell_id, congestion_level, people_count, level, capacity, ts) ==
    /\ CellIdValid(cell_id)
    /\ LevelInRange(congestion_level)
    /\ OptionalIntValid(people_count)
    /\ (level = Missing \/ IsNumber(level))
    /\ OptionalIntValid(capacity)
    /\ (ts = Missing \/ IsNumber(ts))

\* Mutant of CellCongestionData: the timestamp argument is dropped, and the
\* default, the time of construction, stands.
CellCongestionDataStampedNow(cell_id, congestion_level, people_count, level, capacity, ts, clock) ==
    [cell_id |-> cell_id.s,
     congestion_level |-> congestion_level.n,
     people_count |-> Get(people_count, Null),
     level |-> Get(level, JInt(0)).n,
     capacity |-> Get(capacity, Null),
     timestamp |-> clock]

\* The object a successful construction gives; the defaults are the Field
\* defaults (people_count None, level 0, capacity None, timestamp now).
CellCongestionData(cell_id, congestion_level, people_count, level, capacity, ts, clock) ==
    [cell_id |-> cell_id.s,
     congestion_level |-> congestion_level.n,
     people_count |-> Get(people_count, Null),
     level |-> Get(level, JInt(0)).n,
     capacity |-> Get(capacity, Null),
     timestamp |-> Get(ts, JInt(clock)).n]

\* ---------------------------------------------------------------- messages
\* One inbound MQTT payload.  json says what json.loads makes of the bytes:
\* "invalid" raises JSONDecodeError, "array" gives a list, "object" a dict
\* with the keys below (Missing when the key is absent).
Payload(json, event_type, level, ts, grid_present, grid_data, cell_id, congestion_level, people_count) ==
    [json |-> json, event_type |-> event_type, level |-> level, timestamp |-> ts,
     grid_present |-> grid_present, grid_data |-> grid_data,
     cell_id |-> cell_id, congestion_level |-> congestion_level,
     people_count |-> people_count]

NoMsg == Payload("none", Missing, Missing, Missing, FALSE, <<>>, Missing, Missing, Missing)
InvalidJson == Payload("invalid", Missing, Missing, Missing, FALSE, <<>>, Missing, Missing, Missing)
JsonArray == Payload("array", Missing, Missing, Missing, FALSE, <<>>, Missing, Missing, Missing)

Aggregate(level, ts, grid_present, grid_data) ==
    Payload("object", JStr("crowd_density"), level, ts, grid_present, grid_data,
            Missing, Missing, Missing)

Direct(event_type, cell_id, congestion_level, people_count, ts) ==
    Payload("object", event_type, Missing, ts, FALSE, <<>>,
            cell_id, congestion_level, people_count)

\* One element of grid_data.
SubEntry(cell_id, x, y, count) == [cell_id |-> cell_id, x |-> x, y |-> y, count |-> count]

SeqsUpTo(S, n) == UNION {[1..k -> S] : k \in 0..n}

\* The payloads the listener is sent under Spec.
SpecSubEntries ==
    {SubEntry(JStr("c1"), Missing, Missing, JInt(10)),
     SubEntry(JStr("c2"), Missing, Missing, JInt(60)),
     SubEntry(Missing, JInt(0), JInt(0), JInt(20))}

SpecAggregates ==
    {Aggregate(Missing, Missing, TRUE, g) : g \in SeqsUpTo(SpecSubEntries, MaxGrid)}

DirectPayloads ==
    {Direct(Missing, JStr("c1"), JInt(0), JInt(7), Missing),
     Direct(Missing, JStr("c2"), JInt(LevelOne), Missing, Missing),
     Direct(Missing, JStr("c2"), JInt(40), Missing, JInt(0)),
     Direct(Missing, JStr("c1"), JInt(LevelOne + 10), Missing, Missing),
     Direct(Missing, JStr("c2"), JInt(-10), JInt(7), Missing),
     Direct(Missing, JStr("c1"), JStr("invalid"), Missing, Missing),
     Direct(Missing, Missing, JInt(40), Missing, Missing),
     Direct(JStr("other"), JStr("c1"), JInt(40), Missing, Missing)}

Messages == SpecAggregates \cup DirectPayloads \cup {InvalidJson, JsonArray}

\* The payloads the listener is sent under Ingest: batches of up to MaxBatch
\* sub-entries, and one-entry batches over every count up to MaxCount.
IngestSubEntries ==
    {SubEntry(JStr(c), Missing, Missing, JInt(n)) : c \in CellIds, n \in {10, 60}}
    \cup {SubEntry(Missing, JInt(0), JInt(y), JInt(20)) : y \in {0}}
    \cup {SubEntry(JStr("c1"), Missing, Missing, n) : n \in {JInt(-5), JStr("many")}}

IngestBatches ==
    {Aggregate(l, ts, TRUE, g) :
        l \in {Missing, JInt(1)}, ts \in {Missing, JInt(0)},
        g \in SeqsUpTo(IngestSubEntries, MaxBatch)}
    \cup {Aggregate(Missing, Missing, FALSE, <<>>)}

IngestCounts ==
    {Aggregate(l, Missing, TRUE, <<SubEntry(c, Missing, Missing, n)>>) :
        l \in {Missing, JInt(2)},
        c \in {JStr("c1")},
        n \in {JInt(k) : k \in (0 - 3)..MaxCount} \cup {Missing}}

IngestMessages == IngestBatches \cup IngestCounts

\* -------------------------------------------------------------------- state
VARIABLES
    cell_congestion_store,  \* api_handler.cell_congestion_store: cell_id -> record
    first_update_time,      \* api_handler.first_update_time: <<>> is None, <<t>> a time
    store_ref,              \* mqtt_handler.cell_congestion_store: "None" or "store"
    now,                    \* datetime.now()
    inbox,                  \* payloads in flight to the listener (Ingest)
    pc,                     \* on_message: "idle", "loop" (in the for loop), "returned"
    msg,                    \* on_message: the payload being processed, then the last one
    timestamp,              \* on_message: the local timestamp of an aggregate payload
    idx,                    \* on_message: position of the for loop in grid_data
    outcome,                \* how on_message ended: "ok", "json_error", "error", "raised"
    published,              \* the publish_to_clients calls made for msg
    publish_errors,         \* how many of them caught an exception of publish
    writes,                 \* the records on_message wrote to the store for msg
    clear_pc,               \* clear_all_data: "idle", "counted" (len taken, clear to come)
    section_count,          \* clear_all_data: the local section_count
    reader,                 \* the read handler on the event loop: "none", "list_sections",
                            \* "health_check"
    read_pc,                \* its position: "idle", "iterating", "returned"
    it_len,                 \* the dict iterator: len of the dict when it was created
    it_seen,                \* the dict iterator: the keys it has yielded
    read_items,             \* the records the handler has taken from the iterator
    response,               \* what the read handler answered
    start_pc,               \* start_mqtt: "not_started", "simulator", "publisher", "done"
    start_error,            \* start_mqtt: whose connect raised: "none", "simulator",
                            \* "publisher"
    sim_conn,               \* simulator_client: "Disconnected", "Connecting", "Subscribed"
    sim_loop,               \* simulator_client.loop_start() has been called
    pub_conn,               \* client_publisher: "Disconnected", "Connecting", "Connected"
    pub_loop,               \* client_publisher.loop_start() has been called
    subscriptions           \* the subscribe calls made, each [client, topic]

vars == <<cell_congestion_store, first_update_time, store_ref, now, inbox, pc, msg,
          timestamp, idx, outcome, published, publish_errors, writes,
          clear_pc, section_count, reader, read_pc, it_len, it_seen, read_items,
          response, start_pc, start_error, sim_conn, sim_loop, pub_conn, pub_loop,
          subscriptions>>

read_vars == <<reader, read_pc, it_len, it_seen, read_items, response>>
conn_vars == <<start_pc, start_error, sim_conn, sim_loop, pub_conn, pub_loop, subscriptions>>
listener_vars == <<pc, msg, timestamp, idx, outcome, published, publish_errors, writes>>
api_vars == <<first_update_time, clear_pc, section_count>>

EmptyStore == [k \in {} |-> Null]

\* No answer of a read handler yet.
NoResponse ==
    [status |-> 0, body |-> <<>>, tracked_cells |-> 0,
     average_congestion |-> [sum |-> 0, count |-> 0], service_uptime |-> 0]

\* No read handler is running.
NoRead ==
    /\ reader = "none"
    /\ read_pc = "idle"
    /\ it_len = 0
    /\ it_seen = {}
    /\ read_items = <<>>
    /\ response = NoResponse

\* The two MQTT clients as the module creates them: not connected, no loop.
NotStarted ==
    /\ start_pc = "not_started"
    /\ start_error = "none"
    /\ sim_conn = "Disconnected"
    /\ sim_loop = FALSE
    /\ pub_conn = "Disconnected"
    /\ pub_loop = FALSE
    /\ subscriptions = <<>>

\* Mutant of SetItem: a field that is None in the new record keeps the old
\* record's value (an update in place of a replacement).
SetItemMerge(store, key, value) ==
    [k \in DOMAIN store \cup {key} |->
        IF k # key THEN store[k]
        ELSE IF key \in DOMAIN store /\ value.people_count = Null
             THEN [value EXCEPT !.people_count = store[key].people_count]
             ELSE value]

\* Mutant of SetItem: the record with the newer timestamp is kept.
SetItemNewest(store, key, value) ==
    [k \in DOMAIN store \cup {key} |->
        IF k # key THEN store[k]
        ELSE IF key \in DOMAIN store /\ store[key].timestamp > value.timestamp
             THEN store[key]
             ELSE value]

\* Mutant of SetItem: the key is a synthesised identifier, not the cell_id.
SetItemPrefixed(store, key, value) ==
    [k \in DOMAIN store \cup {"cell_" \o key} |->
        IF k = "cell_" \o key THEN value ELSE store[k]]

\* Mutant of SetItem: store.setdefault(key, value), the first record stays.
SetItemKeepsFirst(store, key, value) ==
    [k \in DOMAIN store \cup {key} |-> IF k \in DOMAIN store THEN store[k] ELSE value]

\* store[key] = value
SetItem(store, key, value) ==
    [k \in DOMAIN store \cup {key} |-> IF k = key THEN value ELSE store[k]]

\* Mutant of DelItem: every key goes, not the one.
DelItemAll(store, key) == [k \in {} |-> store[k]]

\* del store[key]
DelItem(store, key) == [k \in DOMAIN store \ {key} |-> store[k]]

Init ==
    /\ cell_congestion_store = EmptyStore
    /\ first_update_time = <<>>
    /\ store_ref = "None"
    /\ now = 0
    /\ inbox = <<>>
    /\ pc = "idle"
    /\ msg = NoMsg
    /\ timestamp = Missing
    /\ idx = 0
    /\ outcome = "none"
    /\ published = <<>>
    /\ publish_errors = 0
    /\ writes = <<>>
    /\ clear_pc = "idle"
    /\ section_count = 0
    /\ NoRead
    /\ NotStarted

\* The clock advances.
Tick ==
    /\ now < MaxClock
    /\ now' = now + 1
    /\ UNCHANGED <<cell_congestion_store, store_ref, inbox, listener_vars, api_vars>>
    /\ UNCHANGED <<read_vars, conn_vars>>

\* ----------------------------------------------------------------- listener
\* start_mqtt(store): main calls it once, before the MQTT loop runs on_message.
start_mqtt ==
    /\ store_ref = "None"
    /\ pc = "idle"
    /\ store_ref' = "store"
    /\ start_pc' = "simulator"
    /\ UNCHANGED <<cell_congestion_store, now, inbox, listener_vars, api_vars, read_vars,
                   start_error, sim_conn, sim_loop, pub_conn, pub_loop, subscriptions>>

\* Mutants of CongestionLevel: the min is left out; // is written for /.
CongestionLevelUnclamped(count) == (count * LevelOne) \div max_capacity

CongestionLevelFloorDiv(count) == Min((count \div max_capacity) * LevelOne, LevelOne)

\* min(count / max_capacity, 1.0), in hundredths
CongestionLevel(count) == Min((count * LevelOne) \div max_capacity, LevelOne)

\* Mutant of PublishCall: the default QoS of publish, 0.
PublishCallQos0(data) == [topic |-> CLIENT_TOPIC, payload |-> data, qos |-> 0]

\* The call client_publisher.publish(CLIENT_TOPIC, payload, qos=1).
PublishCall(data) == [topic |-> CLIENT_TOPIC, payload |-> data, qos |-> 1]

\* Mutant of StoreAndPublish: the record is stored and never published.
StoreAndPublishNoPublish(data, raised) ==
    IF store_ref = "store"
    THEN /\ cell_congestion_store' = SetItem(cell_congestion_store, data.cell_id, data)
         /\ writes' = Append(writes, data)
         /\ UNCHANGED <<published, publish_errors>>
    ELSE UNCHANGED <<cell_congestion_store, writes, published, publish_errors>>

\* Mutant of StoreAndPublish: the exception of publish undoes the store write.
StoreAndPublishLosesWrite(data, raised) ==
    IF store_ref = "store"
    THEN /\ cell_congestion_store' =
                (IF raised THEN cell_congestion_store
                 ELSE SetItem(cell_congestion_store, data.cell_id, data))
         /\ writes' = (IF raised THEN writes ELSE Append(writes, data))
         /\ published' = Append(published, PublishCall(data))
         /\ publish_errors' = publish_errors + (IF raised THEN 1 ELSE 0)
    ELSE UNCHANGED <<cell_congestion_store, writes, published, publish_errors>>

\* Mutant of StoreAndPublish: the store reference is not tested.
StoreAndPublishUnguarded(data, raised) ==
    /\ cell_congestion_store' = SetItem(cell_congestion_store, data.cell_id, data)
    /\ writes' = Append(writes, data)
    /\ published' = Append(published, PublishCall(data))
    /\ publish_errors' = publish_errors + (IF raised THEN 1 ELSE 0)

\* Mutant of StoreAndPublish: the store is rebuilt around the new record.
StoreAndPublishRebuilds(data, raised) ==
    IF store_ref = "store"
    THEN /\ cell_congestion_store' = SetItem(EmptyStore, data.cell_id, data)
         /\ writes' = Append(writes, data)
         /\ published' = Append(published, PublishCall(data))
         /\ publish_errors' = publish_errors + (IF raised THEN 1 ELSE 0)
    ELSE UNCHANGED <<cell_congestion_store, writes, published, publish_errors>>

\* The store write and the publish of one record, or neither while the
\* store reference is None.  raised: publish raised, and was caught.
StoreAndPublish(data, raised) ==
    IF store_ref = "store"
    THEN /\ cell_congestion_store' = SetItem(cell_congestion_store, data.cell_id, data)
         /\ writes' = Append(writes, data)
         /\ published' = Append(published, PublishCall(data))
         /\ publish_errors' = publish_errors + (IF raised THEN 1 ELSE 0)
    ELSE UNCHANGED <<cell_congestion_store, writes, published, publish_errors>>

\* Mutant of ExceptOutcome: JSONDecodeError is not caught.
ExceptOutcomeUncaught(exception) ==
    IF exception = "JSONDecodeError" THEN "raised" ELSE "error"

\* The except clauses of on_message: what becomes of an exception of the try
\* block.  Both clauses print and return.
ExceptOutcome(exception) ==
    IF exception = "JSONDecodeError" THEN "json_error" ELSE "error"

\* on_message up to the for loop (an aggregate payload) or to its end (any
\* other payload).
on_message(m) ==
    /\ pc = "idle"
    /\ msg' = m
    /\ idx' = 1
    /\ IF m.json = "invalid"
       THEN /\ pc' = "returned"
            /\ outcome' = ExceptOutcome("JSONDecodeError")
            /\ timestamp' = Missing
            /\ writes' = <<>> /\ published' = <<>> /\ publish_errors' = 0
            /\ UNCHANGED cell_congestion_store
       ELSE IF m.json = "array"
       THEN /\ pc' = "returned"
            /\ outcome' = ExceptOutcome("AttributeError")
            /\ timestamp' = Missing
            /\ writes' = <<>> /\ published' = <<>> /\ publish_errors' = 0
            /\ UNCHANGED cell_congestion_store
       ELSE IF m.event_type = JStr("crowd_density")
       THEN /\ pc' = "loop"
            /\ outcome' = "none"
            /\ timestamp' = Get(m.timestamp, JInt(now))
            /\ writes' = <<>> /\ published' = <<>> /\ publish_errors' = 0
            /\ UNCHANGED cell_congestion_store
       ELSE /\ pc' = "returned"
            /\ timestamp' = Missing
            /\ LET ts == Get(m.timestamp, JInt(now))
               IN IF FieldsValid(m.cell_id, m.congestion_level, m.people_count,
                                 m.level, Missing, ts)
                  THEN /\ outcome' = "ok"
                       /\ \E raised \in BOOLEAN :
                            StoreAndPublish(CellCongestionData(m.cell_id, m.congestion_level,
                                                m.people_count, m.level, Missing, ts, now),
                                            raised)
                  ELSE /\ outcome' = ExceptOutcome("ValidationError")
                       /\ writes' = <<>> /\ published' = <<>> /\ publish_errors' = 0
                       /\ UNCHANGED cell_congestion_store
    /\ UNCHANGED <<store_ref, now, api_vars>>
    /\ UNCHANGED <<read_vars, conn_vars>>

\* data_dict.get('grid_data', [])
GridData(m) == IF m.grid_present THEN m.grid_data ELSE <<>>

\* Mutant of ProcessCell: the try is inside the loop, and a sub-entry that
\* fails is skipped.
ProcessCellSkipsBad ==
    /\ pc = "loop"
    /\ idx <= Len(GridData(msg))
    /\ LET cell_data == GridData(msg)[idx]
           cell_id == Get(cell_data.cell_id, Null)
           count == Get(cell_data.count, JInt(0))
           congestion_level == JInt(CongestionLevel(count.n))
       IN IF IsNumber(count)
             /\ FieldsValid(cell_id, congestion_level, count, Missing,
                            JInt(max_capacity), timestamp)
          THEN /\ \E raised \in BOOLEAN :
                    StoreAndPublish(CellCongestionData(cell_id, congestion_level, count,
                                        Missing, JInt(max_capacity), timestamp, now), raised)
               /\ idx' = idx + 1
               /\ UNCHANGED <<pc, outcome>>
          ELSE /\ idx' = idx + 1
               /\ UNCHANGED <<pc, outcome, cell_congestion_store, writes, published,
                              publish_errors>>
    /\ UNCHANGED <<store_ref, now, inbox, msg, timestamp, api_vars>>
    /\ UNCHANGED <<read_vars, conn_vars>>

\* One iteration of the for loop over grid_data.
ProcessCell ==
    /\ pc = "loop"
    /\ idx <= Len(GridData(msg))
    /\ LET cell_data == GridData(msg)[idx]
           cell_id == Get(cell_data.cell_id, Null)
           count == Get(cell_data.count, JInt(0))
           congestion_level == JInt(CongestionLevel(count.n))
       IN IF IsNumber(count)
             /\ FieldsValid(cell_id, congestion_level, count, Missing,
                            JInt(max_capacity), timestamp)
          THEN /\ \E raised \in BOOLEAN :
                    StoreAndPublish(CellCongestionData(cell_id, congestion_level, count,
                                        Missing, JInt(max_capacity), timestamp, now), raised)
               /\ idx' = idx + 1
               /\ UNCHANGED <<pc, outcome>>
          ELSE /\ pc' = "returned"
               /\ outcome' = ExceptOutcome(IF IsNumber(count) THEN "ValidationError"
                                                              ELSE "TypeError")
               /\ UNCHANGED <<cell_congestion_store, writes, published, publish_errors, idx>>
    /\ UNCHANGED <<store_ref, now, inbox, msg, timestamp, api_vars>>
    /\ UNCHANGED <<read_vars, conn_vars>>

\* Mutant of LoopExit: a payload with no sub-entries ends as an error.
LoopExitEmptyIsError ==
    /\ pc = "loop"
    /\ idx > Len(GridData(msg))
    /\ pc' = "returned"
    /\ outcome' = (IF GridData(msg) = <<>> THEN "error" ELSE "ok")
    /\ UNCHANGED <<cell_congestion_store, store_ref, now, inbox, msg, timestamp, idx,
                   published, publish_errors, writes, api_vars>>
    /\ UNCHANGED <<read_vars, conn_vars>>

\* The for loop ends and on_message returns.
LoopExit ==
    /\ pc = "loop"
    /\ idx > Len(GridData(msg))
    /\ pc' = "returned"
    /\ outcome' = "ok"
    /\ UNCHANGED <<cell_congestion_store, store_ref, now, inbox, msg, timestamp, idx,
                   published, publish_errors, writes, api_vars>>
    /\ UNCHANGED <<read_vars, conn_vars>>

\* The MQTT loop is ready for the next payload.
NextMessage ==
    /\ pc = "returned"
    /\ pc' = "idle"
    /\ msg' = NoMsg
    /\ timestamp' = Missing
    /\ idx' = 0
    /\ outcome' = "none"
    /\ published' = <<>>
    /\ publish_errors' = 0
    /\ writes' = <<>>
    /\ UNCHANGED <<cell_congestion_store, store_ref, now, inbox, api_vars>>
    /\ UNCHANGED <<read_vars, conn_vars>>

\* --------------------------------------------------------------- HTTP API
\* The request bodies POST /congestion is sent.
Body(cell_id, congestion_level, people_count) ==
    [cell_id |-> cell_id, congestion_level |-> congestion_level,
     people_count |-> people_count, level |-> Missing]

Bodies ==
    {Body(JStr("c1"), JInt(0), JInt(7)),
     Body(JStr("c1"), JInt(LevelOne), Missing),
     Body(JStr("c2"), JInt(40), Missing),
     Body(JStr("c2"), JInt(LevelOne + 10), Missing),
     Body(JStr("c1"), JInt(-10), Missing),
     Body(Missing, JInt(40), Missing)}

\* Mutant of BodyValid: the range of congestion_level is not checked.
BodyValidNoRange(body) ==
    CellIdValid(body.cell_id) /\ IsNumber(body.congestion_level)

\* FastAPI's validation of the body of POST /congestion: 422 when it fails.
BodyValid(body) ==
    FieldsValid(body.cell_id, body.congestion_level, body.people_count, body.level,
                Missing, Missing)

\* The status POST /congestion answers with.
submit_status(body) == IF BodyValid(body) THEN 201 ELSE 422

\* Mutant of submit_cell_congestion_data: the handler republishes the record
\* it has stored, as the listener does.
submit_cell_congestion_data_publishes(body) ==
    /\ clear_pc = "idle"
    /\ reader = "none"
    /\ IF BodyValid(body)
       THEN LET data == CellCongestionData(body.cell_id, body.congestion_level,
                            body.people_count, body.level, Missing, Missing, now)
            IN /\ cell_congestion_store' = SetItem(cell_congestion_store, data.cell_id, data)
               /\ first_update_time' =
                      (IF first_update_time = <<>> THEN <<now>> ELSE first_update_time)
               /\ published' = Append(published, PublishCall(data))
       ELSE UNCHANGED <<cell_congestion_store, first_update_time, published>>
    /\ UNCHANGED <<store_ref, now, inbox, pc, msg, timestamp, idx, outcome,
                   publish_errors, writes, clear_pc, section_count>>
    /\ UNCHANGED <<read_vars, conn_vars>>

submit_cell_congestion_data(body) ==
    /\ clear_pc = "idle"
    /\ reader = "none"
    /\ IF BodyValid(body)
       THEN LET data == CellCongestionData(body.cell_id, body.congestion_level,
                            body.people_count, body.level, Missing, Missing, now)
            IN /\ cell_congestion_store' = SetItem(cell_congestion_store, data.cell_id, data)
               /\ first_update_time' =
                      (IF first_update_time = <<>> THEN <<now>> ELSE first_update_time)
       ELSE UNCHANGED <<cell_congestion_store, first_update_time>>
    /\ UNCHANGED <<store_ref, now, inbox, listener_vars, clear_pc, section_count>>
    /\ UNCHANGED <<read_vars, conn_vars>>

clear_cell_data(cell_id) ==
    /\ clear_pc = "idle"
    /\ reader = "none"
    /\ IF cell_id \in DOMAIN cell_congestion_store
       THEN /\ cell_congestion_store' = DelItem(cell_congestion_store, cell_id)
       ELSE UNCHANGED cell_congestion_store
    /\ UNCHANGED <<store_ref, now, inbox, listener_vars, api_vars>>
    /\ UNCHANGED <<read_vars, conn_vars>>

clear_section_data(section_id) ==
    /\ clear_pc = "idle"
    /\ reader = "none"
    /\ IF section_id \in DOMAIN cell_congestion_store
       THEN /\ cell_congestion_store' = DelItem(cell_congestion_store, section_id)
       ELSE UNCHANGED cell_congestion_store
    /\ UNCHANGED <<store_ref, now, inbox, listener_vars, api_vars>>
    /\ UNCHANGED <<read_vars, conn_vars>>

\* The status DELETE /cell/{cell_id} and DELETE /section/{section_id} answer with.
clear_cell_status(store, cell_id) == IF cell_id \in DOMAIN store THEN 200 ELSE 404

clear_section_status(store, section_id) == IF section_id \in DOMAIN store THEN 200 ELSE 404

\* clear_all_data, first statement: section_count = len(cell_congestion_store)
clear_all_data_count ==
    /\ clear_pc = "idle"
    /\ reader = "none"
    /\ section_count' = Cardinality(DOMAIN cell_congestion_store)
    /\ clear_pc' = "counted"
    /\ UNCHANGED <<cell_congestion_store, first_update_time, store_ref, now, inbox,
                   listener_vars>>
    /\ UNCHANGED <<read_vars, conn_vars>>

\* clear_all_data, the rest: the clear and the reset of first_update_time
clear_all_data_clear ==
    /\ clear_pc = "counted"
    /\ cell_congestion_store' = EmptyStore
    /\ first_update_time' = <<>>
    /\ clear_pc' = "idle"
    /\ section_count' = 0
    /\ UNCHANGED <<store_ref, now, inbox, listener_vars>>
    /\ UNCHANGED <<read_vars, conn_vars>>

\* Mutant of clear_all_response: the length is taken after the clear.
clear_all_response_after_clear == [status |-> 200, sections_cleared |-> 0]

\* What clear_all_data returns: the local section_count, read as the handler
\* returns.
clear_all_response == [status |-> 200, sections_cleared |-> section_count]

\* Mutant of get_cell_heatmap: people_count and capacity change places.
get_cell_heatmap_swapped(store, cell_id) ==
    IF cell_id \notin DOMAIN store
    THEN [status |-> 404, section_id |-> cell_id, congestion_level |-> 0,
          timestamp |-> 0, people_count |-> Null, capacity |-> Null]
    ELSE LET data == store[cell_id]
         IN [status |-> 200, section_id |-> cell_id,
             congestion_level |-> data.congestion_level,
             timestamp |-> data.timestamp,
             people_count |-> data.capacity, capacity |-> data.people_count]

\* GET /heatmap/cell/{cell_id} answered from the store: 404, or the
\* SectionHeatmapResponse
get_cell_heatmap(store, cell_id) ==
    IF cell_id \notin DOMAIN store
    THEN [status |-> 404, section_id |-> cell_id, congestion_level |-> 0,
          timestamp |-> 0, people_count |-> Null, capacity |-> Null]
    ELSE LET data == store[cell_id]
         IN [status |-> 200, section_id |-> cell_id,
             congestion_level |-> data.congestion_level,
             timestamp |-> data.timestamp,
             people_count |-> data.people_count, capacity |-> data.capacity]

\* The orders a dict of these keys can iterate in: the store is modelled
\* without its insertion order, so every order of the keys is one.
DictOrders(store) ==
    {order \in [1..Cardinality(DOMAIN store) -> DOMAIN store] :
        \A i, j \in DOMAIN order : i # j => order[i] # order[j]}

\* list(cell_congestion_store.values()), the keys iterating in this order
Values(store, order) == [i \in DOMAIN order |-> store[order[i]]]

RECURSIVE SumLevels(_)
\* sum(cell.congestion_level for cell in cells_data)
SumLevels(cells_data) ==
    IF cells_data = <<>> THEN 0
    ELSE cells_data[1].congestion_level + SumLevels(Tail(cells_data))

\* max(cells_data, key=lambda x: x.congestion_level): the first maximal element
MaxByLevel(cells_data) ==
    cells_data[CHOOSE i \in DOMAIN cells_data :
        /\ \A j \in DOMAIN cells_data :
             cells_data[j].congestion_level <= cells_data[i].congestion_level
        /\ \A j \in 1..(i - 1) :
             cells_data[j].congestion_level < cells_data[i].congestion_level]

\* min(cells_data, key=lambda x: x.congestion_level): the first minimal element
MinByLevel(cells_data) ==
    cells_data[CHOOSE i \in DOMAIN cells_data :
        /\ \A j \in DOMAIN cells_data :
             cells_data[j].congestion_level >= cells_data[i].congestion_level
        /\ \A j \in 1..(i - 1) :
             cells_data[j].congestion_level > cells_data[i].congestion_level]

\* sum / total, kept as the fraction
Average(cells_data) == [sum |-> SumLevels(cells_data), count |-> Len(cells_data)]

\* Mutant of get_stadium_cell_heatmap: max and min change places.
get_stadium_cell_heatmap_swapped(store, order) ==
    IF DOMAIN store = {}
    THEN [status |-> 404, cells |-> <<>>, total_cells |-> 0,
          average_congestion |-> Average(<<>>),
          most_congested |-> "", least_congested |-> ""]
    ELSE LET cells_data == Values(store, order)
         IN [status |-> 200, cells |-> cells_data, total_cells |-> Len(cells_data),
             average_congestion |-> Average(cells_data),
             most_congested |-> MinByLevel(cells_data).cell_id,
             least_congested |-> MaxByLevel(cells_data).cell_id]

\* GET /heatmap/stadium/cells answered from the store: 404, or the
\* StadiumHeatmapResponse
get_stadium_cell_heatmap(store, order) ==
    IF DOMAIN store = {}
    THEN [status |-> 404, cells |-> <<>>, total_cells |-> 0,
          average_congestion |-> Average(<<>>),
          most_congested |-> "", least_congested |-> ""]
    ELSE LET cells_data == Values(store, order)
         IN [status |-> 200, cells |-> cells_data, total_cells |-> Len(cells_data),
             average_congestion |-> Average(cells_data),
             most_congested |-> MaxByLevel(cells_data).cell_id,
             least_congested |-> MinByLevel(cells_data).cell_id]

\* {section.cell_id: section.congestion_level for section in sections_data}:
\* a later element replaces an earlier one of the same cell_id
SectionsCongestion(sections_data) ==
    [k \in {sections_data[i].cell_id : i \in DOMAIN sections_data} |->
        LET last == CHOOSE i \in DOMAIN sections_data :
                        /\ sections_data[i].cell_id = k
                        /\ \A j \in DOMAIN sections_data :
                             sections_data[j].cell_id = k => j <= i
        IN sections_data[last].congestion_level]

\* GET /heatmap/stadium/sections answered from the store: 404, or the
\* StadiumOverallHeatmapResponse
get_stadium_sections_heatmap(store, order) ==
    IF DOMAIN store = {}
    THEN [status |-> 404, sections |-> [k \in {} |-> 0], total_sections |-> 0,
          average_congestion |-> Average(<<>>),
          most_congested |-> "", least_congested |-> ""]
    ELSE LET sections_data == Values(store, order)
         IN [status |-> 200, sections |-> SectionsCongestion(sections_data),
             total_sections |-> Len(sections_data),
             average_congestion |-> Average(sections_data),
             most_congested |-> MaxByLevel(sections_data).cell_id,
             least_congested |-> MinByLevel(sections_data).cell_id]

\* ------------------------------------------------------------ connections
\* start_mqtt after the assignment of the store: the connect and loop_start
\* of simulator_client.  connect raises when the broker cannot be reached,
\* and the except clause ends start_mqtt.
start_mqtt_simulator ==
    /\ start_pc = "simulator"
    /\ \/ /\ start_error' = "simulator"
          /\ start_pc' = "done"
          /\ UNCHANGED <<sim_conn, sim_loop>>
       \/ /\ sim_conn' = "Connecting"
          /\ sim_loop' = TRUE
          /\ start_pc' = "publisher"
          /\ UNCHANGED start_error
    /\ UNCHANGED <<cell_congestion_store, store_ref, now, inbox, listener_vars, api_vars,
                   read_vars, pub_conn, pub_loop, subscriptions>>

\* start_mqtt, the connect and loop_start of client_publisher, in the same
\* try block.
start_mqtt_publisher ==
    /\ start_pc = "publisher"
    /\ start_pc' = "done"
    /\ \/ /\ start_error' = "publisher"
          /\ UNCHANGED <<pub_conn, pub_loop>>
       \/ /\ pub_conn' = "Connecting"
          /\ pub_loop' = TRUE
          /\ UNCHANGED start_error
    /\ UNCHANGED <<cell_congestion_store, store_ref, now, inbox, listener_vars, api_vars,
                   read_vars, sim_conn, sim_loop, subscriptions>>

\* Mutant of on_simulator_connect: the subscribe is outside the test of rc.
on_simulator_connect_always(rc) ==
    /\ sim_loop
    /\ sim_conn = "Connecting"
    /\ Len(subscriptions) < MaxSubscribes
    /\ subscriptions' = Append(subscriptions,
                               [client |-> "simulator_client", topic |-> SIMULATOR_TOPIC])
    /\ sim_conn' = (IF rc = 0 THEN "Subscribed" ELSE "Disconnected")
    /\ UNCHANGED <<cell_congestion_store, store_ref, now, inbox, listener_vars, api_vars,
                   read_vars, start_pc, start_error, sim_loop, pub_conn, pub_loop>>

\* The loop thread of simulator_client has the broker's answer to a connect.
on_simulator_connect(rc) ==
    /\ sim_loop
    /\ sim_conn = "Connecting"
    /\ IF rc = 0
       THEN /\ Len(subscriptions) < MaxSubscribes
            /\ subscriptions' = Append(subscriptions,
                                       [client |-> "simulator_client",
                                        topic |-> SIMULATOR_TOPIC])
            /\ sim_conn' = "Subscribed"
       ELSE /\ sim_conn' = "Disconnected"
            /\ UNCHANGED subscriptions
    /\ UNCHANGED <<cell_congestion_store, store_ref, now, inbox, listener_vars, api_vars,
                   read_vars, start_pc, start_error, sim_loop, pub_conn, pub_loop>>

\* The loop thread of client_publisher has the broker's answer to a connect.
on_client_connect(rc) ==
    /\ pub_loop
    /\ pub_conn = "Connecting"
    /\ pub_conn' = (IF rc = 0 THEN "Connected" ELSE "Disconnected")
    /\ UNCHANGED <<cell_congestion_store, store_ref, now, inbox, listener_vars, api_vars,
                   read_vars, start_pc, start_error, sim_conn, sim_loop, pub_loop,
                   subscriptions>>

\* An established connection is lost.
simulator_connection_lost ==
    /\ sim_conn = "Subscribed"
    /\ sim_conn' = "Disconnected"
    /\ UNCHANGED <<cell_congestion_store, store_ref, now, inbox, listener_vars, api_vars,
                   read_vars, start_pc, start_error, sim_loop, pub_conn, pub_loop,
                   subscriptions>>

publisher_connection_lost ==
    /\ pub_conn = "Connected"
    /\ pub_conn' = "Disconnected"
    /\ UNCHANGED <<cell_congestion_store, store_ref, now, inbox, listener_vars, api_vars,
                   read_vars, start_pc, start_error, sim_conn, sim_loop, pub_loop,
                   subscriptions>>

\* The thread loop_start has started connects again after a refusal or a
\* loss; without that thread nothing does.
simulator_loop_reconnect ==
    /\ sim_loop
    /\ sim_conn = "Disconnected"
    /\ sim_conn' = "Connecting"
    /\ UNCHANGED <<cell_congestion_store, store_ref, now, inbox, listener_vars, api_vars,
                   read_vars, start_pc, start_error, sim_loop, pub_conn, pub_loop,
                   subscriptions>>

publisher_loop_reconnect ==
    /\ pub_loop
    /\ pub_conn = "Disconnected"
    /\ pub_conn' = "Connecting"
    /\ UNCHANGED <<cell_congestion_store, store_ref, now, inbox, listener_vars, api_vars,
                   read_vars, start_pc, start_error, sim_conn, sim_loop, pub_loop,
                   subscriptions>>

\* ------------------------------------------------------- iterating reads
\* list_sections and health_check iterate over the live dict, one element per
\* step of the model; the listener's thread can write between two steps.
SectionInfo(cell_id, data) ==
    [section_id |-> cell_id, congestion_level |-> data.congestion_level,
     last_update |-> data.timestamp, people_count |-> data.people_count,
     capacity |-> data.capacity]

\* One insertion of a stable descending sort: x goes after every element
\* whose level is at least its own.
InsertByLevel(sorted, x) ==
    LET n == Cardinality({i \in DOMAIN sorted :
                             sorted[i].congestion_level >= x.congestion_level})
    IN SubSeq(sorted, 1, n) \o <<x>> \o SubSeq(sorted, n + 1, Len(sorted))

\* Mutant of SortByLevelDesc: reverse=True is left out.
RECURSIVE SortByLevelAsc(_)
SortByLevelAsc(sections_info) ==
    IF sections_info = <<>> THEN <<>>
    ELSE LET x == sections_info[Len(sections_info)]
             sorted == SortByLevelAsc(SubSeq(sections_info, 1, Len(sections_info) - 1))
             n == Cardinality({i \in DOMAIN sorted :
                                  sorted[i].congestion_level <= x.congestion_level})
         IN SubSeq(sorted, 1, n) \o <<x>> \o SubSeq(sorted, n + 1, Len(sorted))

\* sections_info.sort(key=lambda x: x.congestion_level, reverse=True)
RECURSIVE SortByLevelDesc(_)
SortByLevelDesc(sections_info) ==
    IF sections_info = <<>> THEN <<>>
    ELSE InsertByLevel(SortByLevelDesc(SubSeq(sections_info, 1, Len(sections_info) - 1)),
                       sections_info[Len(sections_info)])

\* An answer of a read handler.
Response(status, body, tracked_cells, average_congestion, service_uptime) ==
    [status |-> status, body |-> body, tracked_cells |-> tracked_cells,
     average_congestion |-> average_congestion, service_uptime |-> service_uptime]

\* Mutant of ServiceUptime: the time since the service started, whatever
\* first_update_time is.
ServiceUptimeSinceStart == now

\* (datetime.now() - first_update_time).total_seconds() if first_update_time else 0
ServiceUptime == IF first_update_time # <<>> THEN now - first_update_time[1] ELSE 0

\* GET /sections with no write during the request, the dict iterating in
\* this order.
list_sections(store, order) ==
    IF DOMAIN store = {}
    THEN Response(200, <<>>, 0, Average(<<>>), 0)
    ELSE Response(200,
                  SortByLevelDesc([i \in DOMAIN order |-> SectionInfo(order[i], store[order[i]])]),
                  0, Average(<<>>), 0)

\* The dict iterator's __next__: "RuntimeError" when the dict's size is not
\* the one it was created with, "StopIteration" at the end, else "item".
DictNext ==
    IF Cardinality(DOMAIN cell_congestion_store) # it_len THEN "RuntimeError"
    ELSE IF DOMAIN cell_congestion_store \ it_seen = {} THEN "StopIteration"
    ELSE "item"

\* list_sections up to its for loop, or to its end on an empty store.
list_sections_begin ==
    /\ reader = "none"
    /\ clear_pc = "idle"
    /\ reader' = "list_sections"
    /\ IF DOMAIN cell_congestion_store = {}
       THEN /\ read_pc' = "returned"
            /\ response' = Response(200, <<>>, 0, Average(<<>>), 0)
            /\ UNCHANGED <<it_len, it_seen, read_items>>
       ELSE /\ read_pc' = "iterating"
            /\ it_len' = Cardinality(DOMAIN cell_congestion_store)
            /\ it_seen' = {}
            /\ read_items' = <<>>
            /\ UNCHANGED response
    /\ UNCHANGED <<cell_congestion_store, store_ref, now, inbox, listener_vars, api_vars,
                   conn_vars>>

\* One turn of the for loop of list_sections; at the end of the loop, the
\* sort and the return.  An exception leaves the handler: FastAPI answers 500.
list_sections_next ==
    /\ reader = "list_sections"
    /\ read_pc = "iterating"
    /\ IF DictNext = "RuntimeError"
       THEN /\ read_pc' = "returned"
            /\ response' = Response(500, <<>>, 0, Average(<<>>), 0)
            /\ UNCHANGED <<it_seen, read_items>>
       ELSE IF DictNext = "StopIteration"
       THEN /\ read_pc' = "returned"
            /\ response' = Response(200, SortByLevelDesc(read_items), 0, Average(<<>>), 0)
            /\ UNCHANGED <<it_seen, read_items>>
       ELSE /\ \E cell_id \in DOMAIN cell_congestion_store \ it_seen :
                 /\ it_seen' = it_seen \cup {cell_id}
                 /\ read_items' = Append(read_items,
                                         SectionInfo(cell_id, cell_congestion_store[cell_id]))
            /\ UNCHANGED <<read_pc, response>>
    /\ UNCHANGED <<cell_congestion_store, store_ref, now, inbox, listener_vars, api_vars,
                   reader, it_len, conn_vars>>

\* health_check up to the generator of its sum: tracked_cells is taken, and
\* an empty store gives the average 0.0 with no iteration.
health_check_begin ==
    /\ reader = "none"
    /\ clear_pc = "idle"
    /\ reader' = "health_check"
    /\ IF DOMAIN cell_congestion_store = {}
       THEN /\ read_pc' = "returned"
            /\ response' = Response(200, <<>>, 0, Average(<<>>), ServiceUptime)
            /\ UNCHANGED <<it_len, it_seen, read_items>>
       ELSE /\ read_pc' = "iterating"
            /\ it_len' = Cardinality(DOMAIN cell_congestion_store)
            /\ it_seen' = {}
            /\ read_items' = <<>>
            /\ response' = Response(0, <<>>, Cardinality(DOMAIN cell_congestion_store),
                                    Average(<<>>), 0)
    /\ UNCHANGED <<cell_congestion_store, store_ref, now, inbox, listener_vars, api_vars,
                   conn_vars>>

\* One element of the sum of health_check; at the end, the division by
\* len(cell_congestion_store) and the return.
health_check_next ==
    /\ reader = "health_check"
    /\ read_pc = "iterating"
    /\ IF DictNext = "RuntimeError"
       THEN /\ read_pc' = "returned"
            /\ response' = Response(500, <<>>, 0, Average(<<>>), 0)
            /\ UNCHANGED <<it_seen, read_items>>
       ELSE IF DictNext = "StopIteration"
       THEN /\ read_pc' = "returned"
            /\ response' = Response(200, <<>>, response.tracked_cells,
                                    [sum |-> SumLevels(read_items),
                                     count |-> Cardinality(DOMAIN cell_congestion_store)],
                                    ServiceUptime)
            /\ UNCHANGED <<it_seen, read_items>>
       ELSE /\ \E cell_id \in DOMAIN cell_congestion_store \ it_seen :
                 /\ it_seen' = it_seen \cup {cell_id}
                 /\ read_items' = Append(read_items, cell_congestion_store[cell_id])
            /\ UNCHANGED <<read_pc, response>>
    /\ UNCHANGED <<cell_congestion_store, store_ref, now, inbox, listener_vars, api_vars,
                   reader, it_len, conn_vars>>

\* The answer is sent; the event loop takes the next request.
read_done ==
    /\ read_pc = "returned"
    /\ reader' = "none"
    /\ read_pc' = "idle"
    /\ it_len' = 0
    /\ it_seen' = {}
    /\ read_items' = <<>>
    /\ response' = NoResponse
    /\ UNCHANGED <<cell_congestion_store, store_ref, now, inbox, listener_vars, api_vars,
                   conn_vars>>

\* ------------------------------------------------------------ specifications
\* The simulator's broker delivers a payload.
Receive ==
    /\ \E m \in Messages : on_message(m)
    /\ UNCHANGED inbox

Next ==
    \/ Tick
    \/ start_mqtt
    \/ Receive
    \/ ProcessCell
    \/ LoopExit
    \/ NextMessage
    \/ \E body \in Bodies : submit_cell_congestion_data(body)
    \/ \E id \in CellIds : clear_cell_data(id)
    \/ \E id \in CellIds : clear_section_data(id)
    \/ clear_all_data_count
    \/ clear_all_data_clear

Spec == Init /\ [][Next]_vars

\* The listener alone, handed one payload of IngestMessages.
IngestInit ==
    /\ cell_congestion_store = EmptyStore
    /\ first_update_time = <<>>
    /\ store_ref = "None"
    /\ now = 0
    /\ inbox \in {<<m>> : m \in IngestMessages}
    /\ pc = "idle"
    /\ msg = NoMsg
    /\ timestamp = Missing
    /\ idx = 0
    /\ outcome = "none"
    /\ published = <<>>
    /\ publish_errors = 0
    /\ writes = <<>>
    /\ clear_pc = "idle"
    /\ section_count = 0
    /\ NoRead
    /\ NotStarted

Deliver ==
    /\ inbox # <<>>
    /\ on_message(Head(inbox))
    /\ inbox' = Tail(inbox)

IngestNext ==
    \/ Tick
    \/ start_mqtt
    \/ Deliver
    \/ ProcessCell
    \/ LoopExit
    \/ NextMessage

Ingest == IngestInit /\ [][IngestNext]_vars

\* The read handlers that iterate over the store, with its two writers: POST
\* /congestion on the same event loop, the listener on its own thread.
ReadsNext ==
    \/ start_mqtt
    \/ Receive
    \/ ProcessCell
    \/ LoopExit
    \/ NextMessage
    \/ \E body \in Bodies : submit_cell_congestion_data(body)
    \/ list_sections_begin
    \/ list_sections_next
    \/ health_check_begin
    \/ health_check_next
    \/ read_done

Reads == Init /\ [][ReadsNext]_vars

\* GET /health with every writer of the store and of first_update_time, and
\* the clock: POST /congestion and the DELETEs on the same event loop, the
\* listener on its own thread, handed one direct and one aggregate payload.
HealthMessages ==
    {Direct(Missing, JStr("c2"), JInt(40), Missing, JInt(0)),
     Aggregate(Missing, Missing, TRUE,
               <<SubEntry(JStr("c1"), Missing, Missing, JInt(10)),
                 SubEntry(JStr("c2"), Missing, Missing, JInt(60))>>)}

HealthReceive ==
    /\ \E m \in HealthMessages : on_message(m)
    /\ UNCHANGED inbox

HealthNext ==
    \/ Tick
    \/ start_mqtt
    \/ HealthReceive
    \/ ProcessCell
    \/ LoopExit
    \/ NextMessage
    \/ \E body \in Bodies : submit_cell_congestion_data(body)
    \/ \E id \in CellIds : clear_cell_data(id)
    \/ \E id \in CellIds : clear_section_data(id)
    \/ clear_all_data_count
    \/ clear_all_data_clear
    \/ health_check_begin
    \/ health_check_next
    \/ read_done

Health == Init /\ [][HealthNext]_vars

\* The two MQTT connections, from start_mqtt on.
LifecycleNext ==
    \/ start_mqtt
    \/ start_mqtt_simulator
    \/ start_mqtt_publisher
    \/ \E rc \in ResultCodes : on_simulator_connect(rc)
    \/ \E rc \in ResultCodes : on_client_connect(rc)
    \/ simulator_connection_lost
    \/ publisher_connection_lost
    \/ simulator_loop_reconnect
    \/ publisher_loop_reconnect

Lifecycle == Init /\ [][LifecycleNext]_vars

\* start_mqtt runs to its end and the threads of loop_start keep running;
\* what the brokers and the network do is under no such condition.
LiveLifecycle ==
    /\ Lifecycle
    /\ WF_vars(start_mqtt)
    /\ WF_vars(start_mqtt_simulator)
    /\ WF_vars(start_mqtt_publisher)
    /\ WF_vars(\E rc \in ResultCodes : on_simulator_connect(rc))
    /\ WF_vars(\E rc \in ResultCodes : on_client_connect(rc))
    /\ WF_vars(simulator_loop_reconnect)
    /\ WF_vars(publisher_loop_reconnect)

\* ================================================================== claims
\* The vocabulary of the claims, independent of the definitions above.
InUnitInterval(v) == IsNumber(v) /\ v.n >= 0 /\ v.n <= LevelOne
IsAggregate(m) == m.json = "object" /\ m.event_type = JStr("crowd_density")
IsDirect(m) == m.json = "object" /\ m.event_type = Missing

\* The identifier the tests expect for a sub-entry without cell_id:
\* "cell_<level>_<x>_<y>".
SynthId(level, x, y) ==
    "cell_" \o ToString(level) \o "_" \o ToString(x) \o "_" \o ToString(y)

BatchLevel(m) == IF IsNumber(m.level) THEN m.level.n ELSE 0
EntryCount(e) == IF e.count = Missing THEN 0 ELSE e.count.n
HasCoordinates(e) == e.cell_id = Missing /\ IsNumber(e.x) /\ IsNumber(e.y)
\* The sub-entry names a cell and carries a count that is a number >= 0.
WellFormed(e) ==
    /\ IsString(e.cell_id) \/ HasCoordinates(e)
    /\ e.count = Missing \/ (IsNumber(e.count) /\ e.count.n >= 0)
\* The cell a sub-entry designates.
CellOf(m, e) ==
    IF IsString(e.cell_id) THEN e.cell_id.s
    ELSE SynthId(BatchLevel(m), e.x.n, e.y.n)
Grid(m) == m.grid_data
AllWellFormed(m, n) == \A j \in 1..n : WellFormed(Grid(m)[j])
DistinctCells(m) ==
    \A i, j \in 1..Len(Grid(m)) : i # j => CellOf(m, Grid(m)[i]) # CellOf(m, Grid(m)[j])
\* on_message has finished an aggregate payload with the store initialised.
AggregateDone == pc = "returned" /\ IsAggregate(msg) /\ store_ref = "store"

\* C1: one aggregate payload whose n sub-entries designate n distinct cells,
\* by cell_id or by coordinates, processed on an empty initialised store,
\* leaves exactly n records and makes exactly n publish calls.
C1_OneRecordPerSubEntry ==
    (AggregateDone /\ AllWellFormed(msg, Len(Grid(msg))) /\ DistinctCells(msg))
        => /\ Cardinality(DOMAIN cell_congestion_store) = Len(Grid(msg))
           /\ Len(published) = Len(Grid(msg))

\* C2: a sub-entry without cell_id is stored under the identifier synthesised
\* from the batch level and its coordinates, cell_<level>_<x>_<y>.
C2_SynthesisedCellId ==
    AggregateDone =>
        \A i \in 1..Len(Grid(msg)) :
            (AllWellFormed(msg, i) /\ HasCoordinates(Grid(msg)[i]))
                => /\ i <= Len(writes)
                   /\ writes[i].cell_id = CellOf(msg, Grid(msg)[i])
                   /\ CellOf(msg, Grid(msg)[i]) \in DOMAIN cell_congestion_store

\* A step of on_message that handles a whole direct-record payload.
DirectStep == pc = "idle" /\ pc' = "returned" /\ IsDirect(msg')

\* C3: a direct-record payload with a cell_id and a congestion_level in [0,1],
\* received with the store initialised, is stored under its cell_id with exactly
\* that level, GET /heatmap/cell/{id} returns that level, and exactly one
\* publish of that record is made.
C3_DirectRecordStored ==
    [][(DirectStep /\ store_ref = "store" /\ IsString(msg'.cell_id)
            /\ InUnitInterval(msg'.congestion_level))
        => /\ msg'.cell_id.s \in DOMAIN cell_congestion_store'
           /\ cell_congestion_store'[msg'.cell_id.s].congestion_level
                  = msg'.congestion_level.n
           /\ get_cell_heatmap(cell_congestion_store', msg'.cell_id.s).status = 200
           /\ get_cell_heatmap(cell_congestion_store', msg'.cell_id.s).congestion_level
                  = msg'.congestion_level.n
           /\ Len(published') = 1
           /\ published'[1].payload = cell_congestion_store'[msg'.cell_id.s]
           /\ outcome' = "ok"]_vars

C3_Witness ==
    /\ pc = "returned" /\ IsDirect(msg) /\ outcome = "ok" /\ store_ref = "store"
    /\ msg.congestion_level = JInt(LevelOne)
    /\ Len(published) = 1
    /\ msg.cell_id.s \in DOMAIN cell_congestion_store

\* C4: a direct-record payload whose congestion_level is a number outside
\* [0,1] fails: the store is the same after the message as before it and no
\* publish call is made.
C4_OutOfRangeRejected ==
    [][(DirectStep /\ IsNumber(msg'.congestion_level)
            /\ ~InUnitInterval(msg'.congestion_level))
        => /\ cell_congestion_store' = cell_congestion_store
           /\ published' = <<>>
           /\ writes' = <<>>
           /\ outcome' = "error"]_vars

C4_Witness ==
    /\ pc = "returned" /\ IsDirect(msg) /\ outcome = "error" /\ store_ref = "store"
    /\ IsNumber(msg.congestion_level) /\ msg.congestion_level.n > LevelOne
    /\ IsString(msg.cell_id)
    /\ msg.cell_id.s \in DOMAIN cell_congestion_store

\* C5: a payload that is not valid JSON changes nothing in the store, makes no
\* publish call, ends in the handler's JSON-error branch without raising,
\* and leaves the listener ready for the next payload in the state it had.
C5_InvalidJsonContained ==
    [][/\ (pc = "idle" /\ msg'.json = "invalid")
            => /\ pc' = "returned"
               /\ outcome' = "json_error"
               /\ published' = <<>>
               /\ writes' = <<>>
               /\ UNCHANGED <<cell_congestion_store, first_update_time, store_ref, now>>
       /\ (pc = "returned" /\ msg.json = "invalid" /\ pc' # pc)
            => /\ pc' = "idle"
               /\ UNCHANGED <<cell_congestion_store, first_update_time, store_ref, now>>
      ]_vars

C5_Witness ==
    /\ pc = "returned" /\ msg.json = "invalid" /\ outcome = "json_error"
    /\ store_ref = "store"
    /\ cell_congestion_store # EmptyStore

\* The sub-entry fails normalisation: no identifier, or a count of a wrong type.
Malformed(e) == ~IsString(e.cell_id) \/ ~(e.count = Missing \/ IsNumber(e.count))

\* C6: an aggregate payload with a sub-entry that fails normalisation writes
\* no record and makes no publish, wherever the bad sub-entry stands, and
\* ends as an error.
C6_MalformedBatchWritesNothing ==
    (AggregateDone /\ \E i \in 1..Len(Grid(msg)) : Malformed(Grid(msg)[i]))
        => /\ writes = <<>>
           /\ published = <<>>
           /\ cell_congestion_store = EmptyStore
           /\ outcome = "error"

\* C7: every record in the store has 0 <= congestion_level <= 1.
C7_StoredLevelsInRange ==
    \A k \in DOMAIN cell_congestion_store :
        /\ cell_congestion_store[k].congestion_level >= 0
        /\ cell_congestion_store[k].congestion_level <= LevelOne

C7_Witness ==
    /\ pc = "returned" /\ outcome = "error" /\ IsDirect(msg)
    /\ IsNumber(msg.congestion_level) /\ msg.congestion_level.n > LevelOne
    /\ Cardinality(DOMAIN cell_congestion_store) = 2
    /\ first_update_time # <<>>

\* The sub-entries up to the i-th name a cell by cell_id and carry a count >= 0,
\* so the loop reaches the i-th and takes it.
Reached(i) == \A j \in 1..i : IsString(Grid(msg)[j].cell_id) /\ WellFormed(Grid(msg)[j])

\* C8: a sub-entry with count >= max_capacity gives a record with
\* congestion_level exactly 1.0 and people_count the raw count.
C8_ClampedAtCapacity ==
    AggregateDone =>
        \A i \in 1..Len(Grid(msg)) :
            (Reached(i) /\ EntryCount(Grid(msg)[i]) >= max_capacity)
                => /\ i <= Len(writes)
                   /\ writes[i].congestion_level = LevelOne
                   /\ writes[i].people_count = JInt(EntryCount(Grid(msg)[i]))

C8_Witness ==
    /\ AggregateDone /\ Len(writes) = 1
    /\ EntryCount(Grid(msg)[1]) = MaxCount
    /\ writes[1].congestion_level = LevelOne

\* C9: a sub-entry with 0 <= count <= max_capacity gives a record with
\* congestion_level = count / max_capacity, people_count = count and
\* capacity = max_capacity.
C9_LevelIsCountOverCapacity ==
    AggregateDone =>
        \A i \in 1..Len(Grid(msg)) :
            (Reached(i) /\ EntryCount(Grid(msg)[i]) <= max_capacity)
                => /\ i <= Len(writes)
                   /\ writes[i].congestion_level * max_capacity
                          = EntryCount(Grid(msg)[i]) * LevelOne
                   /\ writes[i].people_count = JInt(EntryCount(Grid(msg)[i]))
                   /\ writes[i].capacity = JInt(max_capacity)

C9_Witness ==
    /\ AggregateDone /\ Len(writes) = 1
    /\ Grid(msg)[1].count = JInt(25)
    /\ writes[1].congestion_level = 50

\* C10: every record derived from an aggregate payload has the level of the
\* payload's level field, and 0 when the payload has none.
C10_LevelCopiedFromBatch ==
    (pc \in {"loop", "returned"} /\ IsAggregate(msg))
        => \A i \in 1..Len(writes) : writes[i].level = BatchLevel(msg)

\* C11: an aggregate payload whose grid_data is empty or absent writes nothing,
\* publishes nothing and ends normally, not in an except clause.
C11_EmptyBatchIsNoError ==
    (AggregateDone /\ (~msg.grid_present \/ msg.grid_data = <<>>))
        => /\ writes = <<>>
           /\ published = <<>>
           /\ cell_congestion_store = EmptyStore
           /\ outcome = "ok"

C11_Witness ==
    /\ AggregateDone /\ ~msg.grid_present
    /\ outcome = "ok" /\ published = <<>>

\* C12: a write to a cell_id that already has a record replaces the record
\* whole, through POST /congestion and through the listener alike: the store
\* then holds for that cell_id exactly the record just built, and a field the
\* new input does not carry (people_count) has its default, None, whatever the
\* old record held.
C12_SecondWriteReplaces ==
    [][/\ \A body \in Bodies :
            (/\ submit_cell_congestion_data(body)
             /\ IsString(body.cell_id)
             /\ InUnitInterval(body.congestion_level))
                => /\ DOMAIN cell_congestion_store' =
                          DOMAIN cell_congestion_store \cup {body.cell_id.s}
                   /\ cell_congestion_store'[body.cell_id.s] =
                          [cell_id |-> body.cell_id.s,
                           congestion_level |-> body.congestion_level.n,
                           people_count |-> Get(body.people_count, Null),
                           level |-> 0,
                           capacity |-> Null,
                           timestamp |-> now]
       /\ Len(writes') = Len(writes) + 1
            => LET data == writes'[Len(writes')]
               IN /\ DOMAIN cell_congestion_store' =
                         DOMAIN cell_congestion_store \cup {data.cell_id}
                  /\ cell_congestion_store'[data.cell_id] = data
                  /\ IsDirect(msg') => data.people_count = Get(msg'.people_count, Null)
      ]_vars

\* The listener wrote c1 with people_count 7 for the payload it still holds,
\* and a later POST for c1 without people_count replaced it.
C12_Witness ==
    /\ pc = "returned" /\ Len(writes) = 1
    /\ writes[1].cell_id = "c1" /\ writes[1].people_count = JInt(7)
    /\ "c1" \in DOMAIN cell_congestion_store
    /\ cell_congestion_store["c1"].congestion_level = LevelOne
    /\ cell_congestion_store["c1"].people_count = Null

\* C13: errors are contained at the message boundary: on_message never
\* raises, and a payload that ends in an except clause (undecodable, not an
\* object, or failing validation) has written nothing to the store and
\* published nothing, so the records of earlier payloads are as they were.
C13_ErrorsContained ==
    /\ outcome # "raised"
    /\ (pc = "returned" /\ outcome \in {"json_error", "error"})
            => writes = <<>> /\ published = <<>>

\* C14: an exception of publish stays inside publish_to_clients: an aggregate
\* payload of valid sub-entries during which a publish failed still ends
\* normally, with every sub-entry written to the store, the written records
\* kept, and every sub-entry handed to the publisher.
C14_PublishFailureContained ==
    (AggregateDone /\ publish_errors > 0 /\ Reached(Len(Grid(msg))))
        => /\ outcome = "ok"
           /\ Len(writes) = Len(Grid(msg))
           /\ Len(published) = Len(Grid(msg))
           /\ \A i \in 1..Len(Grid(msg)) :
                /\ writes[i].cell_id = Grid(msg)[i].cell_id.s
                /\ published[i].payload = writes[i]
                /\ writes[i].cell_id \in DOMAIN cell_congestion_store
           /\ cell_congestion_store[writes[Len(writes)].cell_id] = writes[Len(writes)]

C14_Witness ==
    /\ AggregateDone /\ outcome = "ok"
    /\ publish_errors >= 1 /\ publish_errors < Len(writes)
    /\ Len(writes) = MaxBatch /\ Len(published) = MaxBatch

\* C15: at every moment the publish calls made for the payload in hand are,
\* one for one and in order, the records written to the store for it: each
\* record is published once, before the next is written, nothing else is
\* published, and every call is on CLIENT_TOPIC with QoS 1.
C15_PublishedIsWritten ==
    /\ Len(published) = Len(writes)
    /\ \A i \in 1..Len(published) :
         /\ published[i].payload = writes[i]
         /\ published[i].topic = CLIENT_TOPIC
         /\ published[i].qos = 1

\* Inside a batch: the first record is written and published, the second
\* sub-entry is still to be processed.
C15_Witness ==
    /\ pc = "loop" /\ idx = 2 /\ Len(GridData(msg)) = 2
    /\ Len(writes) = 1 /\ Len(published) = 1
    /\ published[1].payload = writes[1]
    /\ cell_congestion_store[writes[1].cell_id] = writes[1]

\* C16: a JSON object whose event_type is present and is not crowd_density is
\* discarded as an error, with no store write and no publish, whatever else
\* it carries.
C16_BadDiscriminatorDiscarded ==
    (/\ pc = "returned"
     /\ store_ref = "store"
     /\ msg.json = "object"
     /\ msg.event_type # Missing
     /\ msg.event_type # JStr("crowd_density"))
        => /\ outcome = "error"
           /\ writes = <<>>
           /\ published = <<>>

\* C17: POST /congestion with a congestion_level outside [0,1] or without a
\* cell_id answers 422 and changes neither the store nor first_update_time;
\* with a cell_id and a level in [0,1], bounds included, it answers 201 and the
\* store then holds under the body's cell_id the record submitted, the level
\* as sent.
C17_PostValidated ==
    [][\A body \in Bodies :
         LET acceptable == IsString(body.cell_id) /\ InUnitInterval(body.congestion_level)
         IN /\ submit_status(body) = (IF acceptable THEN 201 ELSE 422)
            /\ submit_cell_congestion_data(body)
                 => IF acceptable
                    THEN /\ body.cell_id.s \in DOMAIN cell_congestion_store'
                         /\ LET data == cell_congestion_store'[body.cell_id.s]
                            IN /\ data.cell_id = body.cell_id.s
                               /\ data.congestion_level = body.congestion_level.n
                               /\ data.people_count = Get(body.people_count, Null)
                         /\ first_update_time' # <<>>
                    ELSE UNCHANGED <<cell_congestion_store, first_update_time>>
      ]_vars

\* Before the listener has the store, so only POST can have written: c1 is
\* held at the boundary level 1.0.
C17_Witness ==
    /\ store_ref = "None"
    /\ first_update_time # <<>>
    /\ "c1" \in DOMAIN cell_congestion_store
    /\ cell_congestion_store["c1"].congestion_level = LevelOne
    /\ submit_status(Body(JStr("c2"), JInt(LevelOne + 10), Missing)) = 422

\* C18: DELETE /cell/{id} and DELETE /section/{id} of a key that is present
\* remove that key and nothing else, every other record staying as it was;
\* of a key that is absent they answer 404 and leave the store unchanged.
C18_DeleteRemovesOneKey ==
    [][\A id \in CellIds :
         /\ clear_cell_data(id)
              => IF id \in DOMAIN cell_congestion_store
                 THEN /\ clear_cell_status(cell_congestion_store, id) = 200
                      /\ DOMAIN cell_congestion_store' = DOMAIN cell_congestion_store \ {id}
                      /\ \A k \in DOMAIN cell_congestion_store' :
                           cell_congestion_store'[k] = cell_congestion_store[k]
                 ELSE /\ clear_cell_status(cell_congestion_store, id) = 404
                      /\ UNCHANGED cell_congestion_store
         /\ clear_section_data(id)
              => IF id \in DOMAIN cell_congestion_store
                 THEN /\ clear_section_status(cell_congestion_store, id) = 200
                      /\ DOMAIN cell_congestion_store' = DOMAIN cell_congestion_store \ {id}
                      /\ \A k \in DOMAIN cell_congestion_store' :
                           cell_congestion_store'[k] = cell_congestion_store[k]
                 ELSE /\ clear_section_status(cell_congestion_store, id) = 404
                      /\ UNCHANGED cell_congestion_store
      ]_vars

\* The listener wrote c1 then c2 for the batch it still holds; c2 has since
\* been deleted, c1 is the record the listener wrote, and a second delete
\* of c2 would answer 404.
C18_Witness ==
    /\ pc = "returned" /\ Len(writes) = 2
    /\ writes[1].cell_id = "c1" /\ writes[2].cell_id = "c2"
    /\ DOMAIN cell_congestion_store = {"c1"}
    /\ cell_congestion_store["c1"] = writes[1]
    /\ clear_cell_status(cell_congestion_store, "c2") = 404

\* The length clear_all_data has taken is still the number of records.
CountAgrees == section_count = Cardinality(DOMAIN cell_congestion_store)
\* A step in which the listener writes a record to the store.
ListenerWrite == Len(writes') = Len(writes) + 1

\* C19: DELETE /stadium empties the store and resets first_update_time to
\* None, and, no listener write falling between its len() and its clear(),
\* answers sections_cleared = the number of records the store held (0 for an
\* empty store).  Step by step: the length taken is the number of records at
\* the call; while the handler is between len() and clear(), every step that
\* is not a listener write leaves that so; and the clear returns the length
\* taken.  Before start_mqtt no listener write exists, and the answer is the
\* number of records outright.
C19_ClearAllCounts ==
    [][/\ clear_all_data_count => CountAgrees'
       /\ (clear_pc = "counted" /\ clear_pc' = "counted" /\ CountAgrees /\ ~ListenerWrite)
            => CountAgrees'
       /\ clear_all_data_clear
            => /\ cell_congestion_store' = EmptyStore
               /\ first_update_time' = <<>>
               /\ clear_all_response.status = 200
               /\ CountAgrees
                    => clear_all_response.sections_cleared =
                           Cardinality(DOMAIN cell_congestion_store)
               /\ store_ref = "None"
                    => clear_all_response.sections_cleared =
                           Cardinality(DOMAIN cell_congestion_store)
      ]_vars

\* The handler has counted two records, none was written since, and the
\* clear is its next step.
C19_Witness ==
    /\ clear_pc = "counted"
    /\ store_ref = "None"
    /\ first_update_time # <<>>
    /\ clear_all_response.sections_cleared = 2
    /\ Cardinality(DOMAIN cell_congestion_store) = 2

\* C20: GET /heatmap/cell/{id} follows the last operation on id.  No id is
\* found at the start; a step that sets id (a valid POST for it, or a
\* listener write of it) makes the answer 200 with that record's
\* congestion_level, people_count, capacity and timestamp; a delete of id or
\* a clear of the store makes it 404; every other step leaves the answer for
\* id as it was.
C20_GetFollowsLastOperation ==
    /\ \A id \in CellIds : get_cell_heatmap(cell_congestion_store, id).status = 404
    /\ [][\A id \in CellIds :
            LET before == get_cell_heatmap(cell_congestion_store, id)
                after == get_cell_heatmap(cell_congestion_store', id)
                posted == {body \in Bodies :
                             /\ IsString(body.cell_id) /\ body.cell_id.s = id
                             /\ InUnitInterval(body.congestion_level)
                             /\ submit_cell_congestion_data(body)}
                written == ListenerWrite /\ writes'[Len(writes')].cell_id = id
                removed == \/ clear_cell_data(id)
                           \/ clear_section_data(id)
                           \/ clear_all_data_clear
            IN /\ \A body \in posted :
                    after = [status |-> 200, section_id |-> id,
                             congestion_level |-> body.congestion_level.n,
                             timestamp |-> now,
                             people_count |-> Get(body.people_count, Null),
                             capacity |-> Null]
               /\ written =>
                    LET data == writes'[Len(writes')]
                    IN after = [status |-> 200, section_id |-> id,
                                congestion_level |-> data.congestion_level,
                                timestamp |-> data.timestamp,
                                people_count |-> data.people_count,
                                capacity |-> data.capacity]
               /\ removed => after.status = 404
               /\ (posted = {} /\ ~written /\ ~removed) => after = before
         ]_vars

\* c1 was set by the listener (the payload is still in hand) and removed
\* since: 404; c2 was set by POST and not removed: its record is returned.
C20_Witness ==
    /\ pc = "returned" /\ Len(writes) = 1 /\ writes[1].cell_id = "c1"
    /\ get_cell_heatmap(cell_congestion_store, "c1").status = 404
    /\ get_cell_heatmap(cell_congestion_store, "c2").status = 200
    /\ get_cell_heatmap(cell_congestion_store, "c2").congestion_level = 40
    /\ get_cell_heatmap(cell_congestion_store, "c2").timestamp = MaxClock

\* The ids of the records of the store with the highest, the lowest level.
Highest(store) ==
    {k \in DOMAIN store : \A j \in DOMAIN store :
        store[j].congestion_level <= store[k].congestion_level}
Lowest(store) ==
    {k \in DOMAIN store : \A j \in DOMAIN store :
        store[j].congestion_level >= store[k].congestion_level}

\* C21: GET /heatmap/stadium/cells and GET /heatmap/stadium/sections answer
\* 404 on an empty store; otherwise the total is the number of records,
\* most_congested is the id of a record of maximum level, least_congested the
\* id of one of minimum level (the one cell when there is one record), and
\* the sections map is exactly cell_id -> congestion_level of the store.
C21_StadiumHeatmaps ==
    \A order \in DictOrders(cell_congestion_store) :
        LET store == cell_congestion_store
            cells == get_stadium_cell_heatmap(store, order)
            sections == get_stadium_sections_heatmap(store, order)
        IN IF DOMAIN store = {}
           THEN cells.status = 404 /\ sections.status = 404
           ELSE /\ cells.status = 200 /\ sections.status = 200
                /\ cells.total_cells = Cardinality(DOMAIN store)
                /\ sections.total_sections = Cardinality(DOMAIN store)
                /\ cells.most_congested \in Highest(store)
                /\ sections.most_congested \in Highest(store)
                /\ cells.least_congested \in Lowest(store)
                /\ sections.least_congested \in Lowest(store)
                /\ Cardinality(DOMAIN store) = 1
                     => {cells.most_congested, cells.least_congested,
                         sections.most_congested, sections.least_congested}
                            = DOMAIN store
                /\ sections.sections = [k \in DOMAIN store |-> store[k].congestion_level]

\* Two records of different levels, the lower one first in the dict.
C21_Witness ==
    /\ DOMAIN cell_congestion_store = {"c1", "c2"}
    /\ cell_congestion_store["c1"].congestion_level
           < cell_congestion_store["c2"].congestion_level
    /\ get_stadium_cell_heatmap(cell_congestion_store, <<"c1", "c2">>).most_congested = "c2"
    /\ get_stadium_sections_heatmap(cell_congestion_store, <<"c1", "c2">>).least_congested = "c1"

\* The sequence runs from the highest level to the lowest.
Descending(body) ==
    \A i, j \in DOMAIN body : i < j => body[i].congestion_level >= body[j].congestion_level

\* C22: GET /sections answers 200 with one entry per record of the store,
\* each with that record's fields, ordered from the highest congestion_level
\* to the lowest, and with the empty list on an empty store; no step of the
\* handler changes the store; and the handler as it runs, with no writer
\* beside it, ends with that answer.
C22_ListSections ==
    /\ [](\A order \in DictOrders(cell_congestion_store) :
            LET store == cell_congestion_store
                answer == list_sections(store, order)
            IN /\ answer.status = 200
               /\ Len(answer.body) = Cardinality(DOMAIN store)
               /\ {answer.body[i].section_id : i \in DOMAIN answer.body} = DOMAIN store
               /\ \A i \in DOMAIN answer.body :
                    answer.body[i] = SectionInfo(answer.body[i].section_id,
                                                 store[answer.body[i].section_id])
               /\ Descending(answer.body))
    /\ [][/\ (list_sections_begin \/ list_sections_next) => UNCHANGED cell_congestion_store
          /\ (reader' = "list_sections" /\ read_pc # "returned" /\ read_pc' = "returned"
                /\ store_ref = "None")
               => \E order \in DictOrders(cell_congestion_store) :
                     response' = list_sections(cell_congestion_store, order)
         ]_vars

\* GET /sections has answered, before the listener has the store: two
\* entries, which the sort has put in the other order.
C22_Witness ==
    /\ reader = "list_sections" /\ read_pc = "returned"
    /\ store_ref = "None"
    /\ response.status = 200 /\ Len(response.body) = 2
    /\ read_items[1].congestion_level < read_items[2].congestion_level
    /\ response.body[1] = read_items[2]

\* C23: a sub-entry with a cell_id and an integer count, negative counts
\* included, always gives a record, and its congestion_level is in [0,1].
C23_DerivedLevelClamped ==
    (/\ AggregateDone
     /\ Len(Grid(msg)) = 1
     /\ IsString(Grid(msg)[1].cell_id)
     /\ IsNumber(Grid(msg)[1].count))
        => /\ outcome = "ok"
           /\ Len(writes) = 1
           /\ writes[1].congestion_level >= 0
           /\ writes[1].congestion_level <= LevelOne

\* C24: a write to a cell_id that has a record wins by arrival: after a
\* listener write or a valid POST for that cell_id the store holds the record
\* just written, whatever the timestamps of the two records, an older
\* timestamp in the new record included.
C24_LastArrivalWins ==
    [][/\ (ListenerWrite /\ writes'[Len(writes')].cell_id \in DOMAIN cell_congestion_store)
            => LET data == writes'[Len(writes')]
               IN /\ cell_congestion_store'[data.cell_id] = data
                  /\ IsDirect(msg') /\ IsNumber(msg'.timestamp)
                       => cell_congestion_store'[data.cell_id].timestamp = msg'.timestamp.n
       /\ \A body \in Bodies :
            (/\ IsString(body.cell_id)
             /\ body.cell_id.s \in DOMAIN cell_congestion_store
             /\ InUnitInterval(body.congestion_level)
             /\ submit_cell_congestion_data(body))
                => LET data == cell_congestion_store'[body.cell_id.s]
                   IN /\ data.congestion_level = body.congestion_level.n
                      /\ data.timestamp = now
      ]_vars

\* The listener has just written a direct record whose own timestamp, 0, is
\* older than the clock, records stamped with the later time having been
\* posted before it: the store holds the older-stamped record.
C24_Witness ==
    /\ pc = "returned" /\ IsDirect(msg) /\ Len(writes) = 1
    /\ now = MaxClock /\ first_update_time = <<MaxClock>>
    /\ writes[1].timestamp = 0
    /\ writes[1].cell_id \in DOMAIN cell_congestion_store
    /\ cell_congestion_store[writes[1].cell_id] = writes[1]

\* C26: DELETE /stadium is atomic with respect to the listener's writes: when
\* the handler comes to its clear, the length it took, which it returns as
\* sections_cleared, is the number of records the clear removes.
C26_ClearAllAtomic ==
    clear_pc = "counted"
        => clear_all_response.sections_cleared = Cardinality(DOMAIN cell_congestion_store)

\* C25: a GET /sections or GET /health that the listener's writes interleave
\* with still answers 200, and every entry it returns is the whole record of
\* a cell of the store.
C25_ReadsNeverFail ==
    read_pc = "returned"
        => /\ response.status = 200
           /\ \A i \in DOMAIN response.body :
                /\ response.body[i].section_id \in DOMAIN cell_congestion_store
                /\ \E j \in DOMAIN read_items : response.body[i] = read_items[j]

\* A connection attempt of the listener has failed: the connect of start_mqtt
\* raised, or the broker refused or dropped the connection.
ListenerAttemptFailed ==
    \/ start_error = "simulator"
    \/ start_pc \in {"publisher", "done"} /\ sim_conn = "Disconnected"

\* C27: whenever a connection attempt of the listener has failed, the initial
\* connect of start_mqtt included, the listener is eventually Connecting again.
C27_ListenerRetries == ListenerAttemptFailed ~> (sim_conn = "Connecting")

\* C28: the publisher's connect is attempted whatever became of the listener's:
\* when start_mqtt has ended, client_publisher has been connected and its loop
\* started, or its own connect raised.
C28_PublisherIndependent ==
    start_pc = "done" => (pub_loop \/ start_error = "publisher")

\* C29: on_simulator_connect subscribes simulator_client to SIMULATOR_TOPIC
\* once when rc = 0 and not at all when rc # 0, on_client_connect never
\* subscribes, and no other step subscribes.
C29_SubscribeOnSuccess ==
    /\ [](\A i \in DOMAIN subscriptions :
            subscriptions[i] = [client |-> "simulator_client", topic |-> SIMULATOR_TOPIC])
    /\ [][/\ \A rc \in ResultCodes :
               on_simulator_connect(rc)
                 => Len(subscriptions') = Len(subscriptions) + (IF rc = 0 THEN 1 ELSE 0)
          /\ \A rc \in ResultCodes :
               on_client_connect(rc) => subscriptions' = subscriptions
          /\ subscriptions' # subscriptions
               => /\ on_simulator_connect(0)
                  /\ sim_conn' = "Subscribed"
         ]_vars

\* The listener is subscribed for the second time, after a refusal or a loss,
\* and the publisher is connected: two subscribe calls, both the listener's.
C29_Witness ==
    /\ sim_conn = "Subscribed" /\ pub_conn = "Connected"
    /\ Len(subscriptions) = 2

\* A step of on_message.
ListenerStep == pc' # pc \/ idx' # idx

\* C30: while the listener's store reference is None, on_message writes
\* nothing, publishes nothing and does not raise, for a direct and for an
\* aggregate payload alike; once start_mqtt has given it the store, every
\* record the listener writes is in the store the HTTP handlers read.
C30_UninitialisedStore ==
    /\ [](store_ref = "None"
            => /\ writes = <<>>
               /\ published = <<>>
               /\ outcome # "raised")
    /\ [][/\ (store_ref = "None" /\ ListenerStep) => UNCHANGED cell_congestion_store
          /\ ListenerWrite
               => /\ store_ref = "store"
                  /\ LET data == writes'[Len(writes')]
                         answer == get_cell_heatmap(cell_congestion_store', data.cell_id)
                     IN /\ answer.status = 200
                        /\ answer.congestion_level = data.congestion_level
                        /\ answer.timestamp = data.timestamp
         ]_vars

\* Before start_mqtt, a valid batch of two sub-entries has been processed to
\* its end: nothing written, and the record a POST stored is all there is.
C30_Witness ==
    /\ store_ref = "None"
    /\ pc = "returned" /\ IsAggregate(msg) /\ outcome = "ok"
    /\ Len(GridData(msg)) = 2
    /\ writes = <<>> /\ published = <<>>
    /\ DOMAIN cell_congestion_store = {"c2"}
    /\ cell_congestion_store["c2"].congestion_level = 40

\* C31: no step of on_message removes a key of the store, whatever the
\* payload and however it ends; a key leaves the store only in a step of
\* DELETE /cell, DELETE /section or DELETE /stadium.
C31_IngestionNeverRemoves ==
    [][/\ ListenerStep
            => DOMAIN cell_congestion_store \subseteq DOMAIN cell_congestion_store'
       /\ ~(DOMAIN cell_congestion_store \subseteq DOMAIN cell_congestion_store')
            => \/ clear_all_data_clear
               \/ \E id \in DOMAIN cell_congestion_store :
                    clear_cell_data(id) \/ clear_section_data(id)
      ]_vars

\* A batch has written c1 and then failed, and c2, which it did not write,
\* is still in the store.
C31_Witness ==
    /\ pc = "returned" /\ outcome = "error"
    /\ Len(writes) = 1 /\ writes[1].cell_id = "c1"
    /\ DOMAIN cell_congestion_store = {"c1", "c2"}

\* C32: the records written for one aggregate payload all carry one
\* timestamp: the payload's own when it has one, else the time at which
\* on_message took the payload, taken once and not again for each record.
C32_UniformBatchTimestamp ==
    /\ []((pc \in {"loop", "returned"} /\ IsAggregate(msg))
            => \A i \in DOMAIN writes :
                 /\ writes[i].timestamp = writes[1].timestamp
                 /\ writes[i].timestamp = timestamp.n
                 /\ IsNumber(msg.timestamp) => writes[i].timestamp = msg.timestamp.n)
    /\ [][(pc = "idle" /\ pc' = "loop")
            => timestamp' = (IF msg'.timestamp = Missing THEN JInt(now) ELSE msg'.timestamp)
         ]_vars

\* Two records of a payload without a timestamp, both stamped with the time
\* of its arrival, which the clock has since left behind.
C32_Witness ==
    /\ AggregateDone /\ msg.timestamp = Missing
    /\ Len(writes) = 2
    /\ writes[1].timestamp = 0 /\ writes[2].timestamp = 0
    /\ now = MaxClock

\* C33: every key of the store is the cell_id of the record under it, so the
\* store holds at most one record for a cell_id.
C33_KeyIsCellId ==
    \A k \in DOMAIN cell_congestion_store : cell_congestion_store[k].cell_id = k

\* One record written by POST and one by the listener, each under its own
\* cell_id.
C33_Witness ==
    /\ DOMAIN cell_congestion_store = {"c1", "c2"}
    /\ cell_congestion_store["c1"].capacity = Null
    /\ cell_congestion_store["c2"].capacity = JInt(max_capacity)
    /\ cell_congestion_store["c1"].cell_id = "c1"
    /\ cell_congestion_store["c2"].cell_id = "c2"

\* The sub-entry fails in the loop: no string cell_id, a count that is not a
\* number, or a negative count, whose level the record refuses.
Fails(e) ==
    ~(IsString(e.cell_id) /\ (e.count = Missing \/ (IsNumber(e.count) /\ e.count.n >= 0)))
\* The position of the first sub-entry of the payload that fails.
FirstFailure(m) ==
    CHOOSE k \in DOMAIN Grid(m) :
        Fails(Grid(m)[k]) /\ \A j \in 1..(k - 1) : ~Fails(Grid(m)[j])

\* C34: a batch is applied sub-entry by sub-entry, in list order, and not as
\* a whole: when the k-th sub-entry is the first to fail, the payload ends as
\* an error with exactly the first k-1 sub-entries written and published,
\* in their order, and nothing of position k or later.
C34_PartialBatch ==
    (AggregateDone /\ \E k \in DOMAIN Grid(msg) : Fails(Grid(msg)[k]))
        => LET k == FirstFailure(msg)
           IN /\ outcome = "error"
              /\ idx = k
              /\ Len(writes) = k - 1
              /\ Len(published) = k - 1
              /\ \A i \in 1..(k - 1) :
                   /\ writes[i].cell_id = Grid(msg)[i].cell_id.s
                   /\ writes[i].people_count = Get(Grid(msg)[i].count, JInt(0))
                   /\ published[i].payload = writes[i]
                   /\ writes[i].cell_id \in DOMAIN cell_congestion_store

\* A batch of three whose second sub-entry fails: the first is written, the
\* third is not.
C34_Witness ==
    /\ AggregateDone /\ outcome = "error"
    /\ Len(Grid(msg)) = 3
    /\ Fails(Grid(msg)[2]) /\ ~Fails(Grid(msg)[3])
    /\ Len(writes) = 1 /\ Len(published) = 1

\* Two sub-entries of the payload name the same cell.
RepeatsCell(m) ==
    \E i, j \in DOMAIN Grid(m) : i < j /\ Grid(m)[i].cell_id = Grid(m)[j].cell_id
\* The last position of the payload that names cell c.
LastOf(m, c) ==
    CHOOSE i \in DOMAIN Grid(m) :
        /\ Grid(m)[i].cell_id = JStr(c)
        /\ \A j \in DOMAIN Grid(m) : Grid(m)[j].cell_id = JStr(c) => j <= i

\* C35: an aggregate payload of valid sub-entries that names a cell more
\* than once makes one publish per sub-entry, in list order, and leaves one
\* record for the cell, the record of its last sub-entry: the payload makes
\* more publishes than it sets keys.
C35_DuplicatesPublishedEach ==
    (AggregateDone /\ RepeatsCell(msg) /\ \A k \in DOMAIN Grid(msg) : ~Fails(Grid(msg)[k]))
        => /\ Len(published) = Len(Grid(msg))
           /\ \A i \in DOMAIN Grid(msg) :
                /\ published[i].payload = writes[i]
                /\ writes[i].cell_id = Grid(msg)[i].cell_id.s
                /\ writes[i].people_count = Get(Grid(msg)[i].count, JInt(0))
           /\ \A c \in DOMAIN cell_congestion_store :
                cell_congestion_store[c] = writes[LastOf(msg, c)]
           /\ DOMAIN cell_congestion_store = {writes[i].cell_id : i \in DOMAIN writes}
           /\ Cardinality(DOMAIN cell_congestion_store) < Len(published)

\* c1 twice, with different counts, and nothing else: two publishes, one
\* record, the second count.
C35_Witness ==
    /\ AggregateDone /\ outcome = "ok"
    /\ Len(Grid(msg)) = 2
    /\ Grid(msg)[1].cell_id = JStr("c1") /\ Grid(msg)[2].cell_id = JStr("c1")
    /\ Grid(msg)[1].count # Grid(msg)[2].count
    /\ Len(published) = 2
    /\ DOMAIN cell_congestion_store = {"c1"}
    /\ cell_congestion_store["c1"].people_count = Grid(msg)[2].count
    /\ published[1].payload.people_count = Grid(msg)[1].count

\* The step is one of the HTTP API: a POST /congestion, a DELETE of a cell or
\* of a section, or one of the two steps of DELETE /stadium.
ApiStep ==
    \/ \E body \in Bodies : submit_cell_congestion_data(body)
    \/ \E id \in CellIds : clear_cell_data(id) \/ clear_section_data(id)
    \/ clear_all_data_count
    \/ clear_all_data_clear

\* C36: only the listener republishes.  The publish calls made for the
\* payload in hand are its own writes, one for one; a step that adds a call
\* is a step of the listener; and no step of the HTTP API, POST /congestion
\* and the three DELETEs, touches the outbound feed, whatever it does to the
\* store.
C36_OnlyListenerPublishes ==
    /\ [](/\ Len(published) = Len(writes)
          /\ \A i \in DOMAIN published : published[i].payload = writes[i])
    /\ [][published' # published
            => /\ ListenerStep
               /\ ~ApiStep
               /\ UNCHANGED <<first_update_time, clear_pc, section_count>>
         ]_vars

\* The store the listener writes to holds a record of c1 that only POST
\* /congestion sets (level 1.0 and no people_count: every payload of the
\* listener that reaches level 1.0 carries a count), and the listener has
\* since published a record of c2 and nothing of c1.
C36_Witness ==
    /\ store_ref = "store"
    /\ first_update_time # <<>>
    /\ "c1" \in DOMAIN cell_congestion_store
    /\ cell_congestion_store["c1"].congestion_level = LevelOne
    /\ cell_congestion_store["c1"].people_count = Null
    /\ pc = "returned"
    /\ Len(published) = 1
    /\ published[1].payload.cell_id = "c2"

\* GET /health has answered 200 and the answer is not yet sent.
HealthAnswered ==
    reader = "health_check" /\ read_pc = "returned" /\ response.status = 200

====
